---- MODULE Spec2Model ----
(***************************************************************************)
(* Model of bot_final.py: the homework bot's request interpretation        *)
(* (ask_model_for_json, parse_query, parse_homework,                       *)
(* parse_homework_request), the in-memory store homework_storage, the      *)
(* lookup get_tasks_by_filter and the handlers start / handle_message.     *)
(*                                                                         *)
(* Encoding.  A Python str is a sequence of one-character strings, so      *)
(* strip / lower / capitalize are computed character by character.  The    *)
(* Cyrillic literals of the source are transliterated to Latin letters     *)
(* (strings are kept to ASCII): the stop words are "zadanie", "zadali",    *)
(* "chto", the subjects "Matematika" and "Istoriya", the emoji of the      *)
(* replies are [x] and [ok].  Reply texts are sequences of text pieces: a  *)
(* literal of an f-string is one piece, an interpolated value contributes  *)
(* its characters.                                                         *)
(***************************************************************************)
EXTENDS Bags, FiniteSets, Integers, Sequences, TLC

\* Number of updates that may be in flight (handler tasks alive) at once.
MaxInFlight == 2

\* Number of records the store may hold; further "add" requests are not made.
MaxRecords == 2

Turns == 1..MaxInFlight

(***************************************************************************)
(* Python str operations                                                   *)
(***************************************************************************)
UpperLetters ==
  <<"A","B","C","D","E","F","G","H","I","J","K","L","M",
    "N","O","P","Q","R","S","T","U","V","W","X","Y","Z">>

LowerLetters ==
  <<"a","b","c","d","e","f","g","h","i","j","k","l","m",
    "n","o","p","q","r","s","t","u","v","w","x","y","z">>

LowerChar(c) ==
  IF \E i \in DOMAIN UpperLetters : UpperLetters[i] = c
  THEN LowerLetters[CHOOSE i \in DOMAIN UpperLetters : UpperLetters[i] = c]
  ELSE c

UpperChar(c) ==
  IF \E i \in DOMAIN LowerLetters : LowerLetters[i] = c
  THEN UpperLetters[CHOOSE i \in DOMAIN LowerLetters : LowerLetters[i] = c]
  ELSE c

IsSpace(c) == c \in {" ", "\n", "\t", "\r"}

SetMin(S) == CHOOSE x \in S : \A y \in S : x <= y

SetMax(S) == CHOOSE x \in S : \A y \in S : x >= y

\* str.strip(): drop leading and trailing whitespace
Strip(s) ==
  LET keep == {i \in DOMAIN s : ~IsSpace(s[i])}
  IN  IF keep = {} THEN <<>> ELSE SubSeq(s, SetMin(keep), SetMax(keep))

\* str.lower()
Lower(s) == [i \in DOMAIN s |-> LowerChar(s[i])]

\* str.capitalize(): first character upper-cased, the rest lower-cased
Capitalize(s) ==
  IF s = <<>> THEN s ELSE <<UpperChar(Head(s))>> \o Lower(Tail(s))

RECURSIVE Flatten(_)
\* concatenation of a sequence of sequences (the order results.append builds)
Flatten(ss) == IF ss = <<>> THEN <<>> ELSE Head(ss) \o Flatten(Tail(ss))

(***************************************************************************)
(* String literals of the source                                           *)
(***************************************************************************)
S_add == <<"a","d","d">>

S_get == <<"g","e","t">>

S_unknown == <<"u","n","k","n","o","w","n">>

S_intent == <<"i","n","t","e","n","t">>

S_zadanie == <<"z","a","d","a","n","i","e">>

S_zadali == <<"z","a","d","a","l","i">>

S_chto == <<"c","h","t","o">>

\* the list literal of cleanup_subject_and_date
StopList == {S_zadanie, S_zadali, S_chto}

(***************************************************************************)
(* JSON values as json.loads returns them.  A value is a record            *)
(*   type   : "null" | "bool" | "number" | "string" | "array" | "object"   *)
(*   str    : the characters of a string                                   *)
(*   num    : the number, or 0/1 of a bool                                 *)
(*   items  : the elements of an array                                     *)
(*   fields : key -> value of an object (keys are plain strings)           *)
(* Elements and field values are scalars: records type/str/num.            *)
(* Python None is JNull: json.loads("null") and the except branch return   *)
(* the same object.                                                        *)
(***************************************************************************)
PNull == [type |-> "null", str |-> <<>>, num |-> 0]

PStr(s) == [type |-> "string", str |-> s, num |-> 0]

PNum(n) == [type |-> "number", str |-> <<>>, num |-> n]

NoFields == [k \in {} |-> PNull]

JNull == [type |-> "null", str |-> <<>>, num |-> 0, items |-> <<>>, fields |-> NoFields]

JBool(b) == [type |-> "bool", str |-> <<>>, num |-> IF b THEN 1 ELSE 0,
             items |-> <<>>, fields |-> NoFields]

JNum(n) == [type |-> "number", str |-> <<>>, num |-> n, items |-> <<>>, fields |-> NoFields]

JStr(s) == [type |-> "string", str |-> s, num |-> 0, items |-> <<>>, fields |-> NoFields]

JArr(xs) == [type |-> "array", str |-> <<>>, num |-> 0, items |-> xs, fields |-> NoFields]

JObj(f) == [type |-> "object", str |-> <<>>, num |-> 0, items |-> <<>>, fields |-> f]

\* Python truth value of a JSON value (not result)
Truthy(v) ==
  CASE v.type = "null"   -> FALSE
    [] v.type = "bool"   -> v.num = 1
    [] v.type = "number" -> v.num # 0
    [] v.type = "string" -> v.str # <<>>
    [] v.type = "array"  -> v.items # <<>>
    [] v.type = "object" -> DOMAIN v.fields # {}

\* needle occurs in hay as a contiguous run (str.__contains__)
IsSubstring(needle, hay) ==
  \E i \in 0..(Len(hay) - Len(needle)) : SubSeq(hay, i + 1, i + Len(needle)) = needle

(***************************************************************************)
(* The generation service's answer to one generate_content call.  Either   *)
(* the call (or response.text) raises, or it yields a text.  A text is a   *)
(* sequence of lexical pieces:                                             *)
(*   "fence_json"      the marker of three backquotes followed by json      *)
(*   "fence"           the marker of three backquotes                       *)
(*   "space"           a run of whitespace                                 *)
(*   "json"            the serialisation of one JSON value (doc)           *)
(*   "junk"            text that is not JSON                               *)
(***************************************************************************)
Piece(kind) == [kind |-> kind, doc |-> JNull]

JsonPiece(v) == [kind |-> "json", doc |-> v]

Raises == [raises |-> TRUE, text |-> <<>>]

Returns(text) == [raises |-> FALSE, text |-> text]

\* str.replace(marker, "") on the pieces of a text
Replace(text, marker) == SelectSeq(text, LAMBDA p : p.kind # marker)

\* str.strip() on the pieces of a text
StripText(text) ==
  LET keep == {i \in DOMAIN text : text[i].kind # "space"}
  IN  IF keep = {} THEN <<>> ELSE SubSeq(text, SetMin(keep), SetMax(keep))

\* json.loads succeeds exactly on one JSON value with optional whitespace around it
JsonLoadsOk(text) ==
  LET body == SelectSeq(text, LAMBDA p : p.kind # "space")
  IN  Len(body) = 1 /\ body[1].kind = "json"

JsonLoads(text) == SelectSeq(text, LAMBDA p : p.kind # "space")[1].doc

\* ask_model_for_json: the value returned for an answer of the service
ask_model_for_json(resp) ==
  IF resp.raises
  THEN JNull
  ELSE LET json_str == StripText(Replace(Replace(resp.text, "fence_json"), "fence"))
       IN  IF JsonLoadsOk(json_str) THEN JsonLoads(json_str) ELSE JNull

\* how a call ended inside ask_model_for_json: in the except branch ("failed":
\* generate_content, response.text or json.loads raised), or with the value
\* of json.loads, a dict ("object") or not ("other")
Ending(resp) ==
  IF resp.raises THEN "failed"
  ELSE LET json_str == StripText(Replace(Replace(resp.text, "fence_json"), "fence"))
       IN  IF ~JsonLoadsOk(json_str) THEN "failed"
           ELSE IF JsonLoads(json_str).type = "object" THEN "object" ELSE "other"

(***************************************************************************)
(* cleanup_subject_and_date, parse_query, parse_homework,                  *)
(* parse_homework_request.  A raising call is the outcome status "raised". *)
(***************************************************************************)
cleanup_subject_and_date(subject, date_str) ==
  LET low_subj == Strip(Lower(subject))
      subject1 == IF low_subj \in StopList THEN <<>> ELSE subject
  IN  [subject |-> Strip(subject1), date |-> Strip(date_str)]

\* parse_query applied to the adapter's result
parse_query(result) ==
  LET unknown == [raised |-> FALSE, value |-> PStr(S_unknown)]
      error   == [raised |-> TRUE, value |-> PNull]
  IN  IF ~Truthy(result)
      THEN unknown
      ELSE CASE result.type = "object" ->
                  IF "intent" \notin DOMAIN result.fields
                  THEN unknown
                  ELSE [raised |-> FALSE, value |-> result.fields["intent"]]
             [] result.type = "array" ->
                  \* membership test on a list, then list["intent"]: TypeError
                  IF \A i \in DOMAIN result.items : result.items[i] # PStr(S_intent)
                  THEN unknown
                  ELSE error
             [] result.type = "string" ->
                  \* substring test on a str, then str["intent"]: TypeError
                  IF ~IsSubstring(S_intent, result.str) THEN unknown ELSE error
             [] OTHER ->
                  \* "intent" in <int or bool>: TypeError
                  error

\* dict.get(key, "")
DictGet(result, key) ==
  IF key \in DOMAIN result.fields THEN result.fields[key] ELSE PStr(<<>>)

NoHomework == [subject |-> <<>>, task |-> <<>>, date |-> <<>>]

\* variant: without the test "if not (subject or task or date_str)"
parse_homework_keeping_empty(result) ==
  LET absent == [status |-> "none", hw |-> NoHomework]
      error  == [status |-> "raised", hw |-> NoHomework]
  IN  IF ~Truthy(result)
      THEN absent
      ELSE IF result.type # "object"
      THEN error
      ELSE LET s == DictGet(result, "subject")
               t == DictGet(result, "task")
               d == DictGet(result, "date")
           IN  IF s.type # "string" \/ t.type # "string" \/ d.type # "string"
               THEN error
               ELSE LET clean == cleanup_subject_and_date(Strip(s.str), Strip(d.str))
                    IN  [status |-> "ok",
                         hw |-> [subject |-> IF clean.subject # <<>>
                                             THEN Capitalize(clean.subject)
                                             ELSE <<>>,
                                 task    |-> Strip(t.str),
                                 date    |-> clean.date]]

\* parse_homework applied to the adapter's result
parse_homework(result) ==
  LET absent == [status |-> "none", hw |-> NoHomework]
      error  == [status |-> "raised", hw |-> NoHomework]
  IN  IF ~Truthy(result)
      THEN absent
      ELSE IF result.type # "object"
      THEN error      \* AttributeError: no attribute 'get'
      ELSE LET s == DictGet(result, "subject")
               t == DictGet(result, "task")
               d == DictGet(result, "date")
           IN  IF s.type # "string" \/ t.type # "string" \/ d.type # "string"
               THEN error      \* AttributeError: no attribute 'strip'
               ELSE LET clean == cleanup_subject_and_date(Strip(s.str), Strip(d.str))
                        task  == Strip(t.str)
                    IN  IF clean.subject = <<>> /\ task = <<>> /\ clean.date = <<>>
                        THEN absent
                        ELSE [status |-> "ok",
                              hw |-> [subject |-> IF clean.subject # <<>>
                                                  THEN Capitalize(clean.subject)
                                                  ELSE <<>>,
                                      task    |-> task,
                                      date    |-> clean.date]]

NoRequest == [subject |-> <<>>, date |-> <<>>]

\* parse_homework_request applied to the adapter's result
parse_homework_request(result) ==
  LET absent == [status |-> "none", req |-> NoRequest]
      error  == [status |-> "raised", req |-> NoRequest]
  IN  IF ~Truthy(result)
      THEN absent
      ELSE IF result.type # "object"
      THEN error
      ELSE LET s == DictGet(result, "subject")
               d == DictGet(result, "date")
           IN  IF s.type # "string" \/ d.type # "string"
               THEN error
               ELSE LET clean == cleanup_subject_and_date(Strip(s.str), Strip(d.str))
                    IN  [status |-> "ok",
                         req |-> [subject |-> IF clean.subject # <<>>
                                              THEN Capitalize(clean.subject)
                                              ELSE <<>>,
                                  date    |-> clean.date]]

(***************************************************************************)
(* datetime: strptime(d_str, "%d.%m.%Y"), now() + timedelta(days=1), >=    *)
(* A datetime is a record ordinal (proleptic Gregorian day number),        *)
(* second (of the day), microsecond.                                       *)
(***************************************************************************)
Digits == <<"0","1","2","3","4","5","6","7","8","9">>

IsDigit(c) == \E i \in DOMAIN Digits : Digits[i] = c

DigitVal(c) == (CHOOSE i \in DOMAIN Digits : Digits[i] = c) - 1

AllDigits(s) == \A i \in DOMAIN s : IsDigit(s[i])

RECURSIVE ToInt(_)
ToInt(s) ==
  IF s = <<>> THEN 0 ELSE 10 * ToInt(SubSeq(s, 1, Len(s) - 1)) + DigitVal(s[Len(s)])

IsLeap(y) == y % 4 = 0 /\ (y % 100 # 0 \/ y % 400 = 0)

DaysInMonth(y, m) ==
  CASE m = 2 -> IF IsLeap(y) THEN 29 ELSE 28
    [] m \in {4, 6, 9, 11} -> 30
    [] OTHER -> 31

DaysBeforeYear(y) ==
  LET p == y - 1 IN p * 365 + (p \div 4) - (p \div 100) + (p \div 400)

RECURSIVE DaysBeforeMonth(_, _)
DaysBeforeMonth(y, m) ==
  IF m = 1 THEN 0 ELSE DaysBeforeMonth(y, m - 1) + DaysInMonth(y, m - 1)

ToOrdinal(y, m, d) == DaysBeforeYear(y) + DaysBeforeMonth(y, m) + d

\* datetime.strptime(d_str, "%d.%m.%Y"): ok = FALSE is ValueError.
\* The directive %d takes one or two digits (01..31 or 1..9), %m one or two
\* (01..12 or 1..9), %Y exactly four; the whole string must be consumed and
\* the date must exist.
Strptime(d_str) ==
  LET fail == [ok |-> FALSE, dt |-> [ordinal |-> 0, second |-> 0, microsecond |-> 0]]
      dots == {i \in DOMAIN d_str : d_str[i] = "."}
  IN  IF Cardinality(dots) # 2
      THEN fail
      ELSE LET p1 == SetMin(dots)
               p2 == SetMax(dots)
               dd == SubSeq(d_str, 1, p1 - 1)
               mm == SubSeq(d_str, p1 + 1, p2 - 1)
               yy == SubSeq(d_str, p2 + 1, Len(d_str))
           IN  IF ~(/\ Len(dd) \in {1, 2} /\ AllDigits(dd)
                    /\ Len(mm) \in {1, 2} /\ AllDigits(mm)
                    /\ Len(yy) = 4 /\ AllDigits(yy))
               THEN fail
               ELSE LET d == ToInt(dd)
                        m == ToInt(mm)
                        y == ToInt(yy)
                    IN  IF /\ d >= 1 /\ m \in 1..12 /\ y >= 1
                           /\ d <= DaysInMonth(y, m)
                        THEN [ok |-> TRUE,
                              dt |-> [ordinal |-> ToOrdinal(y, m, d),
                                      second |-> 0, microsecond |-> 0]]
                        ELSE fail

\* dt + timedelta(days=1)
PlusOneDay(dt) == [dt EXCEPT !.ordinal = @ + 1]

\* a >= b on datetimes
DatetimeGE(a, b) ==
  \/ a.ordinal > b.ordinal
  \/ /\ a.ordinal = b.ordinal
     /\ \/ a.second > b.second
        \/ a.second = b.second /\ a.microsecond >= b.microsecond

(***************************************************************************)
(* homework_storage: a dict, i.e. an insertion-ordered sequence of         *)
(* buckets [key, items]; keys are pairwise distinct.                       *)
(***************************************************************************)
HasKey(storage, key) == \E i \in DOMAIN storage : storage[i].key = key

\* variant: the bucket is read newest first (reversed(...get(key, [])))
StorageGetNewestFirst(storage, key) ==
  IF HasKey(storage, key)
  THEN LET b == storage[CHOOSE i \in DOMAIN storage : storage[i].key = key].items
       IN  [k \in DOMAIN b |-> b[Len(b) + 1 - k]]
  ELSE <<>>

\* homework_storage.get(key, [])
StorageGet(storage, key) ==
  IF HasKey(storage, key)
  THEN storage[CHOOSE i \in DOMAIN storage : storage[i].key = key].items
  ELSE <<>>

\* variant: the bucket is replaced instead of extended (dict[date] = [hw])
StorageAppendOverwrite(storage, date, hw) ==
  IF HasKey(storage, date)
  THEN [i \in DOMAIN storage |->
          IF storage[i].key = date
          THEN [storage[i] EXCEPT !.items = <<hw>>]
          ELSE storage[i]]
  ELSE Append(storage, [key |-> date, items |-> <<hw>>])

\* variant: the record is put at the head of its bucket (insert(0, hw))
StorageAppendFront(storage, date, hw) ==
  IF HasKey(storage, date)
  THEN [i \in DOMAIN storage |->
          IF storage[i].key = date
          THEN [storage[i] EXCEPT !.items = <<hw>> \o @]
          ELSE storage[i]]
  ELSE Append(storage, [key |-> date, items |-> <<hw>>])

\* variant: the bucket is chosen by the record's subject (setdefault(subject, []))
StorageAppendBySubject(storage, date, hw) ==
  IF HasKey(storage, hw.subject)
  THEN [i \in DOMAIN storage |->
          IF storage[i].key = hw.subject
          THEN [storage[i] EXCEPT !.items = Append(@, hw)]
          ELSE storage[i]]
  ELSE Append(storage, [key |-> hw.subject, items |-> <<hw>>])

\* variant: a record equal to one already in the bucket is not appended again
StorageAppendUnlessPresent(storage, date, hw) ==
  IF HasKey(storage, date)
  THEN [i \in DOMAIN storage |->
          IF storage[i].key = date
               /\ \A j \in DOMAIN storage[i].items : storage[i].items[j] # hw
          THEN [storage[i] EXCEPT !.items = Append(@, hw)]
          ELSE storage[i]]
  ELSE Append(storage, [key |-> date, items |-> <<hw>>])

\* homework_storage.setdefault(date, []).append(hw)
StorageAppend(storage, date, hw) ==
  IF HasKey(storage, date)
  THEN [i \in DOMAIN storage |->
          IF storage[i].key = date
          THEN [storage[i] EXCEPT !.items = Append(@, hw)]
          ELSE storage[i]]
  ELSE Append(storage, [key |-> date, items |-> <<hw>>])

\* the f-string of an entry: date, subject and task on three labelled lines
FormatEntry(d_str, hw) ==
  <<"Data: ">> \o d_str \o <<"\nPredmet: ">> \o hw.subject \o <<"\nZadanie: ">> \o hw.task

\* variant: only the filter is lower-cased (hw["subject"] == subject.lower())
SubjectMatchesOneSided(hw, subject) == hw.subject = Lower(subject)

\* hw["subject"].lower() == subject.lower()
SubjectMatches(hw, subject) == Lower(hw.subject) = Lower(subject)

\* variant: the bound is now instead of now + 1 day
FromToday(dt, now) == DatetimeGE(dt, now)

\* if dt >= tomorrow, with tomorrow = datetime.now() + timedelta(days=1)
FromTomorrow(dt, now) == DatetimeGE(dt, PlusOneDay(now))

\* variant: a key that does not parse is not skipped (except ValueError: pass)
SubjectOnlyBucketKeepsUnparsed(bucket, subject, now) ==
  LET parsed == Strptime(bucket.key)
  IN  IF ~parsed.ok \/ FromTomorrow(parsed.dt, now)
      THEN LET hits == SelectSeq(bucket.items, LAMBDA hw : SubjectMatches(hw, subject))
           IN  [i \in DOMAIN hits |-> FormatEntry(bucket.key, hits[i])]
      ELSE <<>>

\* the entries one bucket contributes when only a subject is given
SubjectOnlyBucket(bucket, subject, now) ==
  LET parsed == Strptime(bucket.key)
  IN  IF ~parsed.ok
      THEN <<>>                                   \* except ValueError: continue
      ELSE IF FromTomorrow(parsed.dt, now)
      THEN LET hits == SelectSeq(bucket.items, LAMBDA hw : SubjectMatches(hw, subject))
           IN  [i \in DOMAIN hits |-> FormatEntry(bucket.key, hits[i])]
      ELSE <<>>

\* get_tasks_by_filter(subject, date_str) evaluated on a store at an instant
get_tasks_by_filter(storage, now, subject, date_str) ==
  LET has_subject == subject # <<>>
      has_date    == date_str # <<>>
      hw_list     == StorageGet(storage, date_str)
  IN  CASE has_subject /\ ~has_date ->
             Flatten([i \in DOMAIN storage |-> SubjectOnlyBucket(storage[i], subject, now)])
        [] has_date /\ ~has_subject ->
             [i \in DOMAIN hw_list |-> FormatEntry(date_str, hw_list[i])]
        [] has_subject /\ has_date ->
             LET hits == SelectSeq(hw_list, LAMBDA hw : SubjectMatches(hw, subject))
             IN  [i \in DOMAIN hits |-> FormatEntry(date_str, hits[i])]
        [] OTHER ->
             Flatten([i \in DOMAIN storage |->
                        [j \in DOMAIN storage[i].items |->
                           FormatEntry(storage[i].key, storage[i].items[j])]])

(***************************************************************************)
(* Reply texts of start and handle_message                                 *)
(***************************************************************************)
GreetingText == <<"Privet! Ya bot dlya upravleniya zadaniyami.">>

AddFailedText == <<"[x] Ne udalos raspoznat zadanie.">>

\* `value or placeholder`
OrElse(value, placeholder) == IF value # <<>> THEN value ELSE <<placeholder>>

AddedText(hw) ==
  <<"[ok] Zadanie dobavleno:\nPredmet: ">> \o OrElse(hw.subject, "(ne ukazan)")
    \o <<"\nData: ">> \o OrElse(hw.date, "(ne ukazana)")
    \o <<"\nZadanie: ">> \o hw.task

GetFailedText == <<"[x] Ne udalos raspoznat zapros.">>

RECURSIVE Join(_)
\* "\n\n".join(tasks)
Join(tasks) ==
  IF tasks = <<>> THEN <<>>
  ELSE IF Len(tasks) = 1 THEN Head(tasks)
  ELSE Head(tasks) \o <<"\n\n">> \o Join(Tail(tasks))

\* variant: without the branch elif date_str
NotFoundTextNoDateBranch(subject, date_str) ==
  CASE subject # <<>> /\ date_str # <<>> ->
         <<"[x] Zadanij po predmetu '">> \o subject \o <<"' na ">> \o date_str
           \o <<" ne najdeno.">>
    [] subject # <<>> ->
         <<"[x] Zadanij po predmetu '">> \o subject \o <<"' ne najdeno (zavtra i dalee).">>
    [] OTHER -> <<"[x] Net zadanij.">>

\* the four replies of the branch "else" of "if tasks"
NotFoundText(subject, date_str) ==
  CASE subject # <<>> /\ date_str # <<>> ->
         <<"[x] Zadanij po predmetu '">> \o subject \o <<"' na ">> \o date_str
           \o <<" ne najdeno.">>
    [] subject # <<>> ->
         <<"[x] Zadanij po predmetu '">> \o subject \o <<"' ne najdeno (zavtra i dalee).">>
    [] date_str # <<>> ->
         <<"[x] Zadanij na ">> \o date_str \o <<" ne najdeno.">>
    [] OTHER -> <<"[x] Net zadanij.">>

UnknownIntentText == <<"[x] Ya ne ponyal, chto vy hotite: dobavit zadanie ili posmotret?">>

(***************************************************************************)
(* Inputs: what the generation service may answer, and the wall clock      *)
(***************************************************************************)
PMissing == [type |-> "missing", str |-> <<>>, num |-> 0]

\* the object holding the keys whose value is not PMissing
MakeObject(vals) ==
  JObj([k \in {x \in DOMAIN vals : vals[x].type # "missing"} |-> vals[k]])

S_maybe == <<"m","a","y","b","e">>

S_matematika_padded == <<" ","m","a","t","e","m","a","t","i","k","a"," ">>

S_ISTORIYA == <<"I","S","T","O","R","I","Y","A">>

\* the genitive of istoriya
S_istorii == <<"i","s","t","o","r","i","i">>

S_Zadanie == <<"Z","a","d","a","n","i","e">>

S_task == <<"u","p","r","."," ","1","0">>

S_zavtra == <<"z","a","v","t","r","a">>

S_01_03_2025_padded == <<" ","0","1",".","0","3",".","2","0","2","5"," ">>

S_02_03_2025 == <<"0","2",".","0","3",".","2","0","2","5">>

IntentValues == {PStr(S_add), PStr(S_get), PStr(S_unknown), PStr(S_maybe), PNum(5), PNull}

IntentDocs == {MakeObject([k \in {"intent"} |-> v]) : v \in IntentValues}

\* subjects that are combined with every raw date
RawSubjects == {PMissing, PStr(S_matematika_padded), PStr(S_Zadanie), PNull}

RawDates == {PMissing, PStr(S_zavtra), PStr(S_01_03_2025_padded), PStr(S_02_03_2025), PNum(5)}

TaskDoc(s, d) ==
  MakeObject([k \in {"subject", "task", "date"} |->
                CASE k = "subject" -> s [] k = "task" -> PStr(S_task) [] OTHER -> d])

\* objects with a task; the second subject comes undated and in the bucket 02.03.2025
TaskDocs ==
  {TaskDoc(s, d) : s \in RawSubjects, d \in RawDates}
    \cup {TaskDoc(PStr(S_ISTORIYA), d) : d \in {PMissing, PStr(S_02_03_2025)}}

\* objects whose task is missing, blank or not a string
NoTaskDocs ==
  {MakeObject([k \in {"subject"} |-> PStr(S_Zadanie)]),
   MakeObject([k \in {"task"} |-> PStr(<<" ">>)]),
   MakeObject([k \in {"subject", "task"} |->
                 IF k = "subject" THEN PStr(S_ISTORIYA) ELSE PNull])}

FieldDocs == TaskDocs \cup NoTaskDocs

OtherDocs ==
  {JObj(NoFields), JNull, JBool(TRUE), JBool(FALSE), JNum(0), JNum(5),
   JStr(<<>>), JStr(S_add), JStr(S_intent),
   JArr(<<>>), JArr(<<PStr(S_add)>>), JArr(<<PStr(S_intent)>>)}

Docs == IntentDocs \cup FieldDocs \cup OtherDocs

\* documents that are also tried inside fences, whitespace and junk
WrappedDocs ==
  {MakeObject([k \in {"intent"} |-> PStr(S_add)]),
   MakeObject([k \in {"intent"} |-> PStr(S_get)]),
   MakeObject([k \in {"subject", "date"} |->
                 IF k = "subject" THEN PStr(S_ISTORIYA) ELSE PStr(S_02_03_2025)]),
   JArr(<<PStr(S_add)>>)}

Wrappings(v) ==
  {<<Piece("fence_json"), Piece("space"), JsonPiece(v), Piece("space"), Piece("fence")>>,
   <<Piece("fence"), JsonPiece(v), Piece("fence")>>,
   <<Piece("fence_json"), JsonPiece(v)>>,
   <<JsonPiece(v), Piece("space"), Piece("fence")>>,
   <<Piece("space"), JsonPiece(v), Piece("space")>>,
   <<Piece("junk"), JsonPiece(v)>>,
   <<JsonPiece(v), Piece("fence"), JsonPiece(v)>>}

\* what the handlers' calls may be answered with: a failure, junk, or any document
Responses ==
  {Raises, Returns(<<>>), Returns(<<Piece("junk")>>)}
    \cup {Returns(<<JsonPiece(v)>>) : v \in Docs}

\* the answers to the prompt of parse_homework_request: the same, and a
\* filter whose subject is an inflected form of a stored subject
RequestResponses ==
  Responses
    \cup {Returns(<<JsonPiece(MakeObject([k \in {"subject", "date"} |->
             IF k = "subject" THEN PStr(S_istorii) ELSE PStr(S_02_03_2025)]))>>)}

\* the same with fences, whitespace and junk around some documents
AdapterResponses ==
  Responses
    \cup {Returns(<<Piece("space")>>), Returns(<<Piece("fence_json")>>),
          Returns(<<Piece("fence_json"), Piece("junk"), Piece("fence")>>)}
    \cup UNION {{Returns(w) : w \in Wrappings(v)} : v \in WrappedDocs}

\* datetime.now(): 28.02.2025 and 01.03.2025, at midnight and at noon
Clock ==
  {[ordinal |-> ToOrdinal(2025, m, d), second |-> sec, microsecond |-> us] :
     <<m, d>> \in {<<2, 28>>, <<3, 1>>},
     <<sec, us>> \in {<<0, 0>>, <<43200, 0>>}}


(***************************************************************************)
(* State                                                                   *)
(***************************************************************************)
VARIABLES
  homework_storage,  \* the module-level dict
  pc,                \* where the handler task of each slot stands
  running,           \* the handler the event loop is executing, 0 when none
  intent,            \* handle_message's local intent
  hw,                \* handle_message's local hw (outcome of parse_homework)
  request_data,      \* handle_message's local request_data
  tasks,             \* handle_message's local tasks
  now,               \* the datetime.now() read by get_tasks_by_filter
  reply,             \* the argument of the pending reply_text call
  sent,              \* replies delivered so far for the update being handled
  calls,             \* the generate_content calls issued for that update
  answers,           \* how each of these calls ended inside ask_model_for_json
  inserted,          \* number of append calls on the store so far
  extracted,         \* the records parse_homework has returned so far (a bag)
  adapter            \* one call of ask_model_for_json: its answer and result

vars == <<homework_storage, pc, running, intent, hw, request_data, tasks, now,
          reply, sent, calls, answers, inserted, extracted, adapter>>

locals == <<intent, hw, request_data, tasks, now>>

NoIntent == PNull

NoOutcomeHw == [status |-> "none", hw |-> NoHomework]

NoOutcomeReq == [status |-> "none", req |-> NoRequest]

NoNow == [ordinal |-> 0, second |-> 0, microsecond |-> 0]

NoAdapterCall == [pc |-> "none", response |-> Returns(<<>>), result |-> JNull]

InitHandlers ==
  /\ homework_storage = <<>>
  /\ pc = [t \in Turns |-> "idle"]
  /\ running = 0
  /\ intent = [t \in Turns |-> NoIntent]
  /\ hw = [t \in Turns |-> NoOutcomeHw]
  /\ request_data = [t \in Turns |-> NoOutcomeReq]
  /\ tasks = [t \in Turns |-> <<>>]
  /\ now = [t \in Turns |-> NoNow]
  /\ reply = [t \in Turns |-> <<>>]
  /\ sent = [t \in Turns |-> 0]
  /\ calls = [t \in Turns |-> <<>>]
  /\ answers = [t \in Turns |-> <<>>]
  /\ inserted = 0
  /\ extracted = EmptyBag

Init == InitHandlers /\ adapter = NoAdapterCall

(***************************************************************************)
(* Handlers.  A handler is a coroutine on the single-threaded event loop:  *)
(* it runs without interruption from one suspension point to the next.     *)
(* model.generate_content is a plain (blocking) call inside                *)
(* ask_model_for_json, so the only suspension point of a handler is the    *)
(* await of reply_text; running is the handler holding the loop.  A slot   *)
(* whose handler has returned or raised is idle and takes a later update.  *)
(***************************************************************************)
\* if intent == "add"
IsAdd(v) == v = PStr(S_add)

\* variant: a plain else instead of elif intent == "get"
IsNotAdd(v) == v # PStr(S_add)

\* elif intent == "get"
IsGet(v) == v = PStr(S_get)

\* the locals of a handler that has raised or passed its last statement
DropLocals(t) ==
  /\ intent' = [intent EXCEPT ![t] = NoIntent]
  /\ hw' = [hw EXCEPT ![t] = NoOutcomeHw]
  /\ request_data' = [request_data EXCEPT ![t] = NoOutcomeReq]
  /\ tasks' = [tasks EXCEPT ![t] = <<>>]
  /\ now' = [now EXCEPT ![t] = NoNow]
  /\ calls' = [calls EXCEPT ![t] = <<>>]
  /\ answers' = [answers EXCEPT ![t] = <<>>]

\* an exception leaves the handler: the turn is over, the loop is released
Raise(t) ==
  /\ pc' = [pc EXCEPT ![t] = "idle"]
  /\ running' = 0
  /\ sent' = [sent EXCEPT ![t] = 0]
  /\ DropLocals(t)
  /\ UNCHANGED <<homework_storage, reply, inserted, extracted, adapter>>

\* an update is dispatched to the first free slot while the loop is free
MayBegin(t) ==
  /\ pc[t] = "idle"
  /\ running = 0
  /\ \A u \in Turns : u < t => pc[u] # "idle"

\* start: the /start command is answered with the greeting
Start(t) ==
  /\ MayBegin(t)
  /\ running' = t
  /\ reply' = [reply EXCEPT ![t] = GreetingText]
  /\ pc' = [pc EXCEPT ![t] = "reply_text"]
  /\ UNCHANGED <<homework_storage, locals, sent, calls, answers, inserted, extracted,
                 adapter>>

\* handle_message is entered and parse_query issues its generation call
HandleMessage(t) ==
  /\ MayBegin(t)
  /\ running' = t
  /\ calls' = [calls EXCEPT ![t] = Append(@, "parse_query")]
  /\ pc' = [pc EXCEPT ![t] = "parse_query"]
  /\ UNCHANGED <<homework_storage, locals, reply, sent, answers, inserted, extracted,
                 adapter>>

\* variant: ask_model_for_json repeats a generate_content call that failed
ParseQueryRetrying(t) ==
  /\ pc[t] = "parse_query"
  /\ running = t
  /\ \E resp \in Responses :
       LET q == parse_query(ask_model_for_json(resp))
       IN  IF Ending(resp) = "failed"
           THEN /\ calls' = [calls EXCEPT ![t] = Append(@, "parse_query")]
                /\ answers' = [answers EXCEPT ![t] = Append(@, Ending(resp))]
                /\ UNCHANGED <<homework_storage, pc, running, locals, reply, sent,
                               inserted, extracted, adapter>>
           ELSE IF q.raised
           THEN Raise(t)
           ELSE /\ inserted < MaxRecords \/ ~IsAdd(q.value)
                /\ intent' = [intent EXCEPT ![t] = q.value]
                /\ answers' = [answers EXCEPT ![t] = Append(@, Ending(resp))]
                /\ pc' = [pc EXCEPT ![t] = "dispatch"]
                /\ UNCHANGED <<homework_storage, running, hw, request_data, tasks,
                               now, reply, sent, calls, inserted, extracted, adapter>>

\* the service answers; ask_model_for_json and parse_query return (or raise)
ParseQuery(t) ==
  /\ pc[t] = "parse_query"
  /\ running = t
  /\ \E resp \in Responses :
       LET q == parse_query(ask_model_for_json(resp))
       IN  IF q.raised
           THEN Raise(t)
           ELSE /\ inserted < MaxRecords \/ ~IsAdd(q.value)
                /\ intent' = [intent EXCEPT ![t] = q.value]
                /\ answers' = [answers EXCEPT ![t] = Append(@, Ending(resp))]
                /\ pc' = [pc EXCEPT ![t] = "dispatch"]
                /\ UNCHANGED <<homework_storage, running, hw, request_data, tasks,
                               now, reply, sent, calls, inserted, extracted, adapter>>

\* intent == "add": parse_homework issues its generation call
CallParseHomework(t) ==
  /\ pc[t] = "dispatch"
  /\ running = t
  /\ IsAdd(intent[t])
  /\ calls' = [calls EXCEPT ![t] = Append(@, "parse_homework")]
  /\ pc' = [pc EXCEPT ![t] = "parse_homework"]
  /\ UNCHANGED <<homework_storage, running, locals, reply, sent, answers, inserted,
                 extracted, adapter>>

\* the service answers; parse_homework returns a record, None, or raises
ParseHomework(t) ==
  /\ pc[t] = "parse_homework"
  /\ running = t
  /\ \E resp \in Responses :
       LET out == parse_homework(ask_model_for_json(resp))
       IN  IF out.status = "raised"
           THEN Raise(t)
           ELSE /\ hw' = [hw EXCEPT ![t] = out]
                /\ answers' = [answers EXCEPT ![t] = Append(@, Ending(resp))]
                /\ extracted' = IF out.status = "ok"
                                THEN extracted (+) SetToBag({out.hw})
                                ELSE extracted
                /\ pc' = [pc EXCEPT ![t] = "add"]
                /\ UNCHANGED <<homework_storage, running, intent, request_data, tasks,
                               now, reply, sent, calls, inserted, adapter>>

\* the rest of the "add" branch up to the reply_text call
AddHomework(t) ==
  /\ pc[t] = "add"
  /\ running = t
  /\ IF hw[t].status = "none"
     THEN /\ reply' = [reply EXCEPT ![t] = AddFailedText]
          /\ UNCHANGED <<homework_storage, inserted>>
     ELSE /\ homework_storage' = StorageAppend(homework_storage, hw[t].hw.date, hw[t].hw)
          /\ inserted' = inserted + 1
          /\ reply' = [reply EXCEPT ![t] = AddedText(hw[t].hw)]
  /\ pc' = [pc EXCEPT ![t] = "reply_text"]
  /\ UNCHANGED <<running, locals, sent, calls, answers, extracted, adapter>>

\* intent == "get": parse_homework_request issues its generation call
CallParseHomeworkRequest(t) ==
  /\ pc[t] = "dispatch"
  /\ running = t
  /\ ~IsAdd(intent[t])
  /\ IsGet(intent[t])
  /\ calls' = [calls EXCEPT ![t] = Append(@, "parse_homework_request")]
  /\ pc' = [pc EXCEPT ![t] = "parse_homework_request"]
  /\ UNCHANGED <<homework_storage, running, locals, reply, sent, answers, inserted,
                 extracted, adapter>>

\* the service answers; parse_homework_request returns a filter, None, or raises
ParseHomeworkRequest(t) ==
  /\ pc[t] = "parse_homework_request"
  /\ running = t
  /\ \E resp \in RequestResponses :
       LET out == parse_homework_request(ask_model_for_json(resp))
       IN  IF out.status = "raised"
           THEN Raise(t)
           ELSE /\ request_data' = [request_data EXCEPT ![t] = out]
                /\ answers' = [answers EXCEPT ![t] = Append(@, Ending(resp))]
                /\ pc' = [pc EXCEPT ![t] = "get"]
                /\ UNCHANGED <<homework_storage, running, intent, hw, tasks,
                               now, reply, sent, calls, inserted, extracted, adapter>>

\* variant: the bucket is fetched with setdefault(date_str, []) instead of get
StorageAfterLookupSetdefault(storage, subject, date_str) ==
  IF date_str # <<>> /\ ~HasKey(storage, date_str)
  THEN Append(storage, [key |-> date_str, items |-> <<>>])
  ELSE storage

\* get_tasks_by_filter only reads the dict (items(), get()): the store after a lookup
StorageAfterLookup(storage, subject, date_str) == storage

\* the rest of the "get" branch up to the reply_text call
GetHomework(t) ==
  /\ pc[t] = "get"
  /\ running = t
  /\ IF request_data[t].status = "none"
     THEN /\ reply' = [reply EXCEPT ![t] = GetFailedText]
          /\ UNCHANGED <<homework_storage, tasks, now>>
     ELSE LET subject  == request_data[t].req.subject
              date_str == request_data[t].req.date
          IN  \E n \in Clock :
                LET found == get_tasks_by_filter(homework_storage, n, subject, date_str)
                IN  /\ tasks' = [tasks EXCEPT ![t] = found]
                    \* datetime.now() is read only when a subject and no date is given
                    /\ now' = [now EXCEPT ![t] =
                                 IF subject # <<>> /\ date_str = <<>> THEN n ELSE NoNow]
                    /\ homework_storage' =
                         StorageAfterLookup(homework_storage, subject, date_str)
                    /\ reply' = [reply EXCEPT ![t] =
                                   IF found # <<>>
                                   THEN Join(found)
                                   ELSE NotFoundText(subject, date_str)]
  /\ pc' = [pc EXCEPT ![t] = "reply_text"]
  /\ UNCHANGED <<running, intent, hw, request_data, sent, calls, answers, inserted,
                 extracted, adapter>>

\* the else branch: the intent is neither "add" nor "get"
UnknownIntent(t) ==
  /\ pc[t] = "dispatch"
  /\ running = t
  /\ ~IsAdd(intent[t])
  /\ ~IsGet(intent[t])
  /\ reply' = [reply EXCEPT ![t] = UnknownIntentText]
  /\ pc' = [pc EXCEPT ![t] = "reply_text"]
  /\ UNCHANGED <<homework_storage, running, locals, sent, calls, answers, inserted,
                 extracted, adapter>>

\* await update.message.reply_text(...): the reply is handed to the transport
\* and the handler suspends; it is the last statement of its branch
ReplyText(t) ==
  /\ pc[t] = "reply_text"
  /\ running = t
  /\ sent' = [sent EXCEPT ![t] = @ + 1]
  /\ reply' = [reply EXCEPT ![t] = <<>>]
  /\ pc' = [pc EXCEPT ![t] = "awaiting"]
  /\ running' = 0
  /\ DropLocals(t)
  /\ UNCHANGED <<homework_storage, inserted, extracted, adapter>>

\* the await completes and the handler returns: the turn is over
Return(t) ==
  /\ pc[t] = "awaiting"
  /\ running = 0
  /\ pc' = [pc EXCEPT ![t] = "idle"]
  /\ sent' = [sent EXCEPT ![t] = 0]
  /\ UNCHANGED <<homework_storage, running, locals, reply, calls, answers, inserted,
                 extracted, adapter>>

Next ==
  \E t \in Turns :
    \/ Start(t)
    \/ HandleMessage(t)
    \/ ParseQuery(t)
    \/ CallParseHomework(t)
    \/ ParseHomework(t)
    \/ AddHomework(t)
    \/ CallParseHomeworkRequest(t)
    \/ ParseHomeworkRequest(t)
    \/ GetHomework(t)
    \/ UnknownIntent(t)
    \/ ReplyText(t)
    \/ Return(t)

Spec == Init /\ [][Next]_vars

(***************************************************************************)
(* Scheduling.  The library hands a received update to its handler when    *)
(* the event loop is free, and the loop resumes a handler that can go on.  *)
(* Nothing bounds the time generate_content takes (no timeout, no retry):  *)
(* the steps in which the service answers carry no fairness.               *)
(***************************************************************************)
\* an update is handed to handler t
Dispatch(t) == Start(t) \/ HandleMessage(t)

\* a step handler t takes on its own
HandlerStep(t) ==
  \/ CallParseHomework(t)
  \/ AddHomework(t)
  \/ CallParseHomeworkRequest(t)
  \/ GetHomework(t)
  \/ UnknownIntent(t)
  \/ ReplyText(t)
  \/ Return(t)

SpecScheduled ==
  /\ Init
  /\ [][Next]_vars
  /\ \A t \in Turns : WF_vars(Dispatch(t)) /\ WF_vars(HandlerStep(t))

(***************************************************************************)
(* ask_model_for_json on its own: one call for every answer of the service *)
(***************************************************************************)
InitAdapter ==
  /\ InitHandlers
  /\ adapter \in {[pc |-> "called", response |-> r, result |-> JNull] : r \in AdapterResponses}

AskModelForJson ==
  /\ adapter.pc = "called"
  /\ adapter' = [adapter EXCEPT !.pc = "returned",
                                !.result = ask_model_for_json(adapter.response)]
  /\ UNCHANGED <<homework_storage, pc, running, locals, reply, sent, calls, answers,
                 inserted, extracted>>

SpecAdapter == InitAdapter /\ [][AskModelForJson]_vars

(***************************************************************************)
(* Properties                                                              *)
(***************************************************************************)
Range(seq) == {seq[i] : i \in DOMAIN seq}

\* every record of the store together with the key of its bucket
Stored ==
  UNION {{[key |-> homework_storage[i].key, hw |-> homework_storage[i].items[j]] :
            j \in DOMAIN homework_storage[i].items} : i \in DOMAIN homework_storage}

\* handler t has run get_tasks_by_filter and is about to send its reply
LookedUp(t) ==
  /\ pc[t] = "reply_text"
  /\ intent[t] = PStr(S_get)
  /\ request_data[t].status = "ok"

\* ... with a subject and no date
LookedUpSubjectOnly(t) ==
  /\ LookedUp(t)
  /\ request_data[t].req.subject # <<>>
  /\ request_data[t].req.date = <<>>

\* the bucket key is a date and lies on or after the day following now
DatedFromTomorrow(key, instant) ==
  /\ Strptime(key).ok
  /\ Strptime(key).dt.ordinal >= instant.ordinal + 1

\* C1: every turn ends with exactly one reply delivered (never none, never
\* more than one), whatever the generation service answered.
C1_ExactlyOneReply ==
  [][\A t \in Turns :
       /\ sent'[t] <= 1
       /\ (pc[t] # "idle" /\ pc'[t] = "idle") => sent[t] = 1]_vars

IsFence(p) == p.kind \in {"fence_json", "fence"}

\* the answers the claim C2 lists: a gateway error, empty text, text that is
\* not JSON, a JSON value that is not an object, an odd number of fence markers
ListedFailure(resp) ==
  \/ resp.raises
  \/ resp.text = <<>>
  \/ \A i \in DOMAIN resp.text : resp.text[i].kind # "json"
  \/ \E i \in DOMAIN resp.text :
       resp.text[i].kind = "json" /\ resp.text[i].doc.type # "object"
  \/ Cardinality({i \in DOMAIN resp.text : IsFence(resp.text[i])}) % 2 = 1

\* C2: ask_model_for_json returns a key-value record or absent, and absent
\* for a gateway error, empty or non-JSON text, a non-object JSON value and
\* text with unbalanced fence markers.
C2_RecordOrAbsent ==
  adapter.pc = "returned" =>
    /\ adapter.result.type \in {"object", "null"}
    /\ ListedFailure(adapter.response) => adapter.result = JNull

\* C3: a lookup with a subject and no date returns only entries of buckets
\* whose key parses as a date not earlier than tomorrow's date.
C3_SubjectOnlyNotBeforeTomorrow ==
  \A t \in Turns :
    LookedUpSubjectOnly(t) =>
      \A k \in DOMAIN tasks[t] :
        /\ \E e \in Stored : tasks[t][k] = FormatEntry(e.key, e.hw)
        /\ \A e \in Stored :
             tasks[t][k] = FormatEntry(e.key, e.hw) => DatedFromTomorrow(e.key, now[t])

\* C3 witness: such a lookup returned an entry while the store also holds a
\* record of the same subject that it left out.
C3_Witness ==
  \E t \in Turns :
    /\ LookedUpSubjectOnly(t)
    /\ tasks[t] # <<>>
    /\ \E e \in Stored :
         /\ Lower(e.hw.subject) = Lower(request_data[t].req.subject)
         /\ FormatEntry(e.key, e.hw) \notin Range(tasks[t])

\* C4: a lookup with a subject and no date returns every record of that
\* subject whose bucket is dated tomorrow or later, at any time of day.
C4_SubjectOnlyAllFromTomorrow ==
  \A t \in Turns :
    LookedUpSubjectOnly(t) =>
      \A e \in Stored :
        (/\ Lower(e.hw.subject) = Lower(request_data[t].req.subject)
         /\ DatedFromTomorrow(e.key, now[t]))
          => FormatEntry(e.key, e.hw) \in Range(tasks[t])

\* C5 as stated: a lookup by the subject and date of any stored record
\* returns the entry of that record.
C5_RoundTripAnyRecord ==
  \A t \in Turns :
    LookedUp(t) =>
      \A e \in Stored :
        (/\ e.hw.subject = request_data[t].req.subject
         /\ e.hw.date = request_data[t].req.date)
          => FormatEntry(e.hw.date, e.hw) \in Range(tasks[t])

\* C5 amended: a lookup by the subject and date of a stored record whose date
\* is not empty, or whose subject is empty, returns the entry of that record.
C5_RoundTripDatedOrNoSubject ==
  \A t \in Turns :
    LookedUp(t) =>
      \A e \in Stored :
        (/\ e.hw.subject = request_data[t].req.subject
         /\ e.hw.date = request_data[t].req.date
         /\ e.hw.date # <<>> \/ e.hw.subject = <<>>)
          => FormatEntry(e.hw.date, e.hw) \in Range(tasks[t])

\* C5 witness: a record with a subject and a malformed date was stored and a
\* lookup by that subject and date returned its entry.
C5_Witness ==
  \E t \in Turns :
    /\ LookedUp(t)
    /\ request_data[t].req.subject # <<>>
    /\ request_data[t].req.date # <<>>
    /\ ~Strptime(request_data[t].req.date).ok
    /\ \E e \in Stored :
         /\ e.hw.subject = request_data[t].req.subject
         /\ e.hw.date = request_data[t].req.date
         /\ FormatEntry(e.hw.date, e.hw) \in Range(tasks[t])

\* C6: a lookup with neither subject nor date returns exactly as many
\* entries as records were inserted, however they are spread over buckets.
C6_LookupAllReturnsEveryInsert ==
  \A t \in Turns :
    (LookedUp(t) /\ request_data[t].req = NoRequest) => Len(tasks[t]) = inserted

\* C6 witness: such a lookup after two inserts into different buckets, one of
\* them with a key that is not a date.
C6_Witness ==
  \E t \in Turns :
    /\ LookedUp(t)
    /\ request_data[t].req = NoRequest
    /\ inserted >= 2
    /\ Len(homework_storage) >= 2
    /\ \E i \in DOMAIN homework_storage : ~Strptime(homework_storage[i].key).ok

\* C7: every record stored in the bucket with key k has date k.
C7_RecordDateIsBucketKey ==
  \A i \in DOMAIN homework_storage :
    \A j \in DOMAIN homework_storage[i].items :
      homework_storage[i].items[j].date = homework_storage[i].key

\* C7 witness: two buckets, one of them the bucket of the records without a date.
C7_Witness ==
  /\ Len(homework_storage) >= 2
  /\ \E i \in DOMAIN homework_storage :
       homework_storage[i].key = <<>> /\ homework_storage[i].items # <<>>

\* C8: the store changes only in the step of an "add" turn whose extraction
\* returned a record; failure replies, unknown intents, "get" turns, /start
\* and raising handlers leave every bucket and record as they were.
C8_OnlySuccessfulAddChangesStore ==
  [][homework_storage' # homework_storage =>
       \E t \in Turns :
         /\ pc[t] = "add"
         /\ intent[t] = PStr(S_add)
         /\ hw[t].status = "ok"
         /\ pc'[t] = "reply_text"]_vars

\* C8 witness: a failure reply is about to be sent while the store holds records.
C8_Witness ==
  \E t \in Turns :
    /\ pc[t] = "reply_text"
    /\ reply[t] \in {AddFailedText, GetFailedText}
    /\ homework_storage # <<>>

\* C9: when the intent is neither "add" nor "get", the handler's next step
\* prepares the generic reply, issues no extraction call and leaves the store
\* alone, and sending that reply leaves the store alone too.
C9_OtherIntentGenericReply ==
  [][\A t \in Turns :
       (/\ pc[t] \in {"dispatch", "reply_text"}
        /\ calls[t] # <<>>
        /\ intent[t] # PStr(S_add)
        /\ intent[t] # PStr(S_get)
        /\ pc'[t] # pc[t])
         => /\ homework_storage' = homework_storage
            /\ pc[t] = "dispatch" =>
                 /\ pc'[t] = "reply_text"
                 /\ reply'[t] = UnknownIntentText
                 /\ calls'[t] = <<"parse_query">>]_vars

\* C9 witness: the classifier yielded "maybe" and the generic reply is about
\* to be sent, with records in the store.
C9_Witness ==
  \E t \in Turns :
    /\ pc[t] = "reply_text"
    /\ intent[t] = PStr(S_maybe)
    /\ reply[t] = UnknownIntentText
    /\ homework_storage # <<>>

\* C10: the store is append-only: every bucket keeps its position and key and
\* every stored record keeps its position in its bucket, in every step.
C10_AppendOnly ==
  [][\A i \in DOMAIN homework_storage :
       /\ i \in DOMAIN homework_storage'
       /\ homework_storage'[i].key = homework_storage[i].key
       /\ Len(homework_storage'[i].items) >= Len(homework_storage[i].items)
       /\ SubSeq(homework_storage'[i].items, 1, Len(homework_storage[i].items))
            = homework_storage[i].items]_vars

\* C10 witness: a record was appended to a bucket that already held a
\* different record.
C10_Witness ==
  \E i \in DOMAIN homework_storage :
    /\ Len(homework_storage[i].items) >= 2
    /\ homework_storage[i].items[1] # homework_storage[i].items[2]

\* handler t, in the "add" branch, is about to send its reply
AddReplying(t) ==
  /\ pc[t] = "reply_text"
  /\ intent[t] = PStr(S_add)
  /\ Len(answers[t]) = 2

\* ... after an extraction call that yielded a JSON object of which
\* parse_homework made no record: the fields are all empty after normalization
ExtractionMissed(t) ==
  /\ AddReplying(t)
  /\ answers[t][2] = "object"
  /\ hw[t].status = "none"

\* C11: in an "add" turn the reply after an extraction call that failed at
\* the gateway or yielded malformed output is the failure message, and the
\* reply after a JSON object whose fields are all empty after normalization
\* is a different message.
C11_MissReplyDiffersFromFailureReply ==
  \A t \in Turns :
    /\ (AddReplying(t) /\ answers[t][2] = "failed") => reply[t] = AddFailedText
    /\ ExtractionMissed(t) => reply[t] # AddFailedText

\* the citation form of a lower-case word of the inputs (nominative singular)
CitationForm(word) ==
  IF word = S_istorii THEN Lower(S_ISTORIYA) ELSE word

\* two subjects are forms of the same word
SameWord(a, b) == CitationForm(Lower(a)) = CitationForm(Lower(b))

\* C12: subjects that differ only in grammatical inflection are normalized
\* to the same canonical subject, so a lookup by subject and date returns
\* the records of that bucket stored under another form of the same word.
C12_InflectedSubjectsMatch ==
  \A t \in Turns :
    (LookedUp(t) /\ request_data[t].req.subject # <<>>) =>
      \A e \in Stored :
        (/\ e.key = request_data[t].req.date
         /\ e.key # <<>>
         /\ e.hw.subject # <<>>
         /\ SameWord(e.hw.subject, request_data[t].req.subject))
          => /\ e.hw.subject = request_data[t].req.subject
             /\ FormatEntry(e.key, e.hw) \in Range(tasks[t])

\* handler t has issued a generation call that has not returned
InGenerationCall(t) ==
  pc[t] \in {"parse_query", "parse_homework", "parse_homework_request"}

\* C13: a generation call that does not return holds up its own turn only:
\* while handler t waits for the service and slot u is free for the next
\* utterance, that utterance is eventually taken up (the first step towards
\* its reply) unless the call of t returns first.
C13_StalledCallStallsOnlyItsTurn ==
  \A t \in Turns : \A u \in Turns \ {t} :
    (InGenerationCall(t) /\ pc[u] = "idle")
      ~> (~InGenerationCall(t) \/ pc[u] # "idle")

\* every filter parse_homework_request can return for the answers of the service
Filters ==
  {parse_homework_request(ask_model_for_json(r)).req :
     r \in {x \in RequestResponses :
              parse_homework_request(ask_model_for_json(x)).status = "ok"}}

\* which of the two fields of a filter are given
Given(f) == <<f.subject # <<>>, f.date # <<>>>>

\* C14: after a lookup that found nothing the reply is the not-found
\* message of the filter, whatever the store and the clock; it differs from
\* the not-found message of every filter with another combination of given
\* fields; and with a subject and no date it contains the subject.
C14_NotFoundReplyByGivenFields ==
  \A t \in Turns :
    (LookedUp(t) /\ tasks[t] = <<>>) =>
      LET f == request_data[t].req
      IN  /\ reply[t] = NotFoundText(f.subject, f.date)
          /\ \A g \in Filters :
               Given(g) # Given(f) => NotFoundText(g.subject, g.date) # reply[t]
          /\ Given(f) = <<TRUE, FALSE>> =>
               /\ IsSubstring(f.subject, reply[t])
               /\ ~IsSubstring(<<" na ">>, reply[t])

\* C14 witness: the store is empty and the lookup by the subject Istoriya
\* alone found nothing.
C14_Witness ==
  \E t \in Turns :
    /\ LookedUp(t)
    /\ tasks[t] = <<>>
    /\ homework_storage = <<>>
    /\ request_data[t].req = [subject |-> Capitalize(S_ISTORIYA), date |-> <<>>]
    /\ IsSubstring(Capitalize(S_ISTORIYA), reply[t])

\* C15: parse_homework_request returns a filter whenever the adapter
\* returned a record (a JSON object), whatever its keys; absent is left for
\* the failures of the adapter.
C15_FilterWheneverAdapterReturnedRecord ==
  \A t \in Turns :
    (pc[t] = "get" /\ Len(answers[t]) = 2 /\ answers[t][2] = "object")
      => request_data[t].status = "ok"

\* C16: a lookup with a date D returns, in insertion order, the entries of
\* the records of the one bucket whose key is the string D (all of them
\* without a subject, those whose subject equals the given one up to case
\* otherwise) and nothing else, and it leaves no bucket behind.
C16_DateLookupReadsExactBucket ==
  \A t \in Turns :
    (LookedUp(t) /\ request_data[t].req.date # <<>>) =>
      LET D      == request_data[t].req.date
          S      == request_data[t].req.subject
          own    == {i \in DOMAIN homework_storage : homework_storage[i].key = D}
          items  == IF own = {} THEN <<>>
                    ELSE homework_storage[CHOOSE i \in own : TRUE].items
          wanted == SelectSeq(items, LAMBDA r : S = <<>> \/ Lower(r.subject) = Lower(S))
      IN  /\ Cardinality(own) <= 1
          /\ tasks[t] = [k \in DOMAIN wanted |-> FormatEntry(D, wanted[k])]
          /\ \A i \in DOMAIN homework_storage : homework_storage[i].items # <<>>

\* C16 witness: the bucket of a date that is not parsable holds two different
\* records and the lookup by that date alone returned both.
C16_Witness ==
  \E t \in Turns :
    /\ LookedUp(t)
    /\ request_data[t].req.date # <<>>
    /\ Len(StorageGet(homework_storage, request_data[t].req.date)) = 2
    /\ StorageGet(homework_storage, request_data[t].req.date)[1]
         # StorageGet(homework_storage, request_data[t].req.date)[2]
    /\ request_data[t].req.subject = <<>>
    /\ ~Strptime(request_data[t].req.date).ok
    /\ Len(tasks[t]) = 2

\* the stored records whose date is not empty and not a date DD.MM.YYYY
StoredMalformed == {e \in Stored : e.key # <<>> /\ ~Strptime(e.key).ok}

\* C17 as stated: every lookup that returns a record stored under a
\* malformed date was given exactly that date string.
C17_MalformedOnlyByExactDate ==
  \A t \in Turns :
    LookedUp(t) =>
      \A e \in StoredMalformed :
        FormatEntry(e.key, e.hw) \in Range(tasks[t])
          => request_data[t].req.date = e.key

\* C17 amended: every lookup that returns a record stored under a malformed
\* date was given exactly that date string, or neither a subject nor a date.
C17_MalformedByExactDateOrListAll ==
  \A t \in Turns :
    LookedUp(t) =>
      \A e \in StoredMalformed :
        FormatEntry(e.key, e.hw) \in Range(tasks[t])
          => \/ request_data[t].req.date = e.key
             \/ request_data[t].req = NoRequest

\* C17 witness: a record with a subject is stored under a malformed date and
\* the lookup with neither subject nor date returned it.
C17_Witness ==
  \E t \in Turns :
    /\ LookedUp(t)
    /\ request_data[t].req = NoRequest
    /\ \E e \in StoredMalformed :
         /\ e.hw.subject # <<>>
         /\ FormatEntry(e.key, e.hw) \in Range(tasks[t])

\* handler t is inside handle_message, before its reply_text call returns
InHandleMessage(t) ==
  \/ pc[t] \in {"parse_query", "dispatch", "parse_homework", "add",
                "parse_homework_request", "get"}
  \/ pc[t] = "reply_text" /\ reply[t] # GreetingText

\* C18: a turn issues the intent call first, then at most one extraction
\* call, the one of its intent and only for the intents "add" and "get";
\* every call but the last has been answered, and a call that failed is the
\* last call of its turn.
C18_CallOrderNoRetry ==
  \A t \in Turns :
    /\ calls[t] \in {<<>>, <<"parse_query">>, <<"parse_query", "parse_homework">>,
                     <<"parse_query", "parse_homework_request">>}
    /\ InHandleMessage(t) <=> calls[t] # <<>>
    /\ Len(calls[t]) = 2 =>
         /\ intent[t] \in {PStr(S_add), PStr(S_get)}
         /\ calls[t][2] = "parse_homework" <=> intent[t] = PStr(S_add)
    /\ Len(answers[t]) \in {Len(calls[t]), Len(calls[t]) - 1}
    /\ Len(answers[t]) = Len(calls[t]) - 1 =>
         pc[t] \in {"parse_query", "parse_homework", "parse_homework_request"}
    /\ \A k \in DOMAIN answers[t] : answers[t][k] = "failed" => k = Len(calls[t])

\* C18 witness: the intent call failed and the turn is about to reply, having
\* issued no other call.
C18_Witness ==
  \E t \in Turns :
    /\ pc[t] = "reply_text"
    /\ calls[t] = <<"parse_query">>
    /\ answers[t] = <<"failed">>
    /\ reply[t] = UnknownIntentText

\* C19: no stored record has subject, task and date all empty, and no
\* bucket of the store is empty.
C19_NoEmptyRecordNoEmptyBucket ==
  /\ \A e \in Stored : e.hw # NoHomework
  /\ \A i \in DOMAIN homework_storage : homework_storage[i].items # <<>>

\* C19 witness: an "add" turn whose extraction yielded an object with nothing
\* left after normalization is about to send the failure reply, while the
\* store holds a record that has a task and neither subject nor date.
C19_Witness ==
  /\ \E t \in Turns : ExtractionMissed(t) /\ reply[t] = AddFailedText
  /\ \E e \in Stored : e.hw.subject = <<>> /\ e.hw.date = <<>> /\ e.hw.task # <<>>

\* the records of the store, each as many times as it is stored (a bag)
StoredBag ==
  LET at == {<<i, j>> \in (DOMAIN homework_storage) \X (1..MaxRecords) :
               j \in DOMAIN homework_storage[i].items}
  IN  [r \in {homework_storage[p[1]].items[p[2]] : p \in at} |->
         Cardinality({p \in at : homework_storage[p[1]].items[p[2]] = r})]

\* the records of the handlers standing between the return of
\* parse_homework and the insert (a set: one handler holds the loop)
AwaitingInsert ==
  {hw[t].hw : t \in {u \in Turns : pc[u] = "add" /\ hw[u].status = "ok"}}

\* C20: no insert is lost or doubled, however the turns interleave: the
\* store holds exactly the records parse_homework has returned in "add"
\* turns, each once per return, but for the one a handler is about to
\* insert; and each lies in the bucket keyed by its date.  When all turns
\* have finished the store holds one record per such turn.
C20_NoLostInsert ==
  /\ StoredBag (+) SetToBag(AwaitingInsert) = extracted
  /\ Cardinality(AwaitingInsert) <= 1
  /\ BagCardinality(StoredBag) = inserted
  /\ \A e \in Stored : e.hw.date = e.key

\* C20 witness: while one handler is suspended in its reply_text, another one
\* has inserted a record equal to one already in the bucket and is about to
\* reply: the bucket holds the record twice.
C20_Witness ==
  /\ \E t \in Turns : \E u \in Turns \ {t} :
       /\ pc[t] = "awaiting"
       /\ pc[u] = "reply_text"
       /\ intent[u] = PStr(S_add)
       /\ hw[u].status = "ok"
  /\ \E i \in DOMAIN homework_storage :
       /\ Len(homework_storage[i].items) = 2
       /\ homework_storage[i].items[1] = homework_storage[i].items[2]
  /\ BagCardinality(extracted) = 2

====
